---------------------------- MODULE Spec2Model ----------------------------
(***************************************************************************)
(* Model of the ECH test report scripts of outline-sdk                     *)
(* (x/tools/ech-test/report):                                              *)
(*                                                                         *)
(*   generate_filtered_table.py  -- per-domain A/HTTPS duration table      *)
(*   unique_domain_analysis.py   -- HTTPS RR parameter usage per domain    *)
(*                                                                         *)
(* Each script is a batch program: it reads its CSV input, computes, and   *)
(* prints.  The input files are chosen in the initial state; the actions   *)
(* are the consecutive blocks of each script's main().                     *)
(***************************************************************************)
EXTENDS Integers, Sequences, FiniteSets, TLC

VARIABLES
    \* generate_filtered_table.py
    csv,               \* the file results-top1000-n5.csv on disk
    pc,                \* position in main(), or the way it ended
    df,                \* pd.read_csv(csv_file)
    filtered_df,       \* A/HTTPS rows with parsed_answers and has_answer
    domain_ranks,      \* (domain, rank) pairs, duplicates dropped
    grouped_durations, \* median/min/max per (domain, query_type) group
    merged_durations,  \* one row per domain and rank, with diff and ratio
    filtered_domains,  \* rows with duration_diff > 50, sorted
    markdown_table,    \* the rows printed
    \* unique_domain_analysis.py
    files,             \* the three results-top1000-v*.csv files on disk
    upc,               \* position in main(), or the way it ended
    fi,                \* index of the next file of the load loop
    dfs,               \* the frames read so far
    warnings,          \* indexes of the files reported as not found
    udf,               \* pd.concat(dfs)
    param_domains,     \* recognized parameter -> set of domains
    param_counts,      \* row label -> number of unique domains
    param_df           \* the rows printed, in groups of equal count

tvars == <<csv, pc, df, filtered_df, domain_ranks, grouped_durations,
           merged_durations, filtered_domains, markdown_table>>

uvars == <<files, upc, fi, dfs, warnings, udf, param_domains, param_counts,
           param_df>>

vars == <<tvars, uvars>>

-----------------------------------------------------------------------------
(* Bounds of the model. *)

\* rows in results-top1000-n5.csv
MaxRows == 3

\* rows in results-top1000-n5.csv when the answers cell varies
MaxAnswerRows == 2

\* rows in results-top1000-n5.csv when the rank of a domain varies
MaxRankRows == 3

\* rows in results-top1000-n5.csv when several domains reach the sort
MaxSortRows == 4

\* rows in the three results-top1000-v*.csv files taken together
MaxRecs == 3

-----------------------------------------------------------------------------
(* Generic helpers. *)

SeqsUpTo(S, n) == UNION {[1..k -> S] : k \in 0..n}

Range(s) == {s[i] : i \in 1..Len(s)}

RECURSIVE Flatten(_)
Flatten(ss) == IF ss = <<>> THEN <<>> ELSE Head(ss) \o Flatten(Tail(ss))

\* all orderings of the elements of sequence s (as sequences)
Perms(s) ==
    {[i \in 1..Len(s) |-> s[f[i]]] :
        f \in {g \in [1..Len(s) -> 1..Len(s)] :
                  \A i, j \in 1..Len(s) : i # j => g[i] # g[j]}}

-----------------------------------------------------------------------------
(* Floating point values as pandas holds them: a number n/d, NaN or inf.   *)

NaN == [k |-> "nan", n |-> 0, d |-> 1]
Inf == [k |-> "inf", n |-> 0, d |-> 1]
Num(x) == [k |-> "num", n |-> x, d |-> 1]

\* a - b
FSub(a, b) ==
    IF a.k = "nan" \/ b.k = "nan" THEN NaN ELSE Num(a.n - b.n)

\* a / b for non-negative a, b: x/0 is inf, 0/0 is NaN
FDiv(a, b) ==
    IF a.k = "nan" \/ b.k = "nan" THEN NaN
    ELSE IF b.n = 0 THEN (IF a.n = 0 THEN NaN ELSE Inf)
    ELSE [k |-> "num", n |-> a.n, d |-> b.n]

\* a > c for an integer c: a comparison with NaN is False
FGt(a, c) == a.k = "num" /\ a.n > c

-----------------------------------------------------------------------------
(* json.loads on the answers cell.  A cell is the raw text of the CSV      *)
(* column; an empty cell is read by pandas as the float NaN.               *)

EmptyList    == "[]"
NotJson      == "{not json"
MissingCell  == "NaN"
ObjectAnswer == "{name:value}"
PlainAnswer  == "[{name,value}]"
EchAnswer    == "[{params:{ech}}]"
AlpnEchTwice == "[{params:{alpn,ech}},{params:{alpn}}]"
PortAnswer   == "[{params:{port}}]"

Entry(has, ps) == [hasParams |-> has, params |-> ps]

\* the decoded value: its JSON type and its members (the elements of a list,
\* the keys of an object), or the exception json.loads raises
Loaded(type, members) == [exc |-> "none", type |-> type, val |-> members]

Raised(exc) == [exc |-> exc, type |-> "none", val |-> <<>>]

json_loads(raw) ==
    CASE raw = MissingCell  -> Raised("TypeError")
      [] raw = NotJson      -> Raised("JSONDecodeError")
      [] raw = EmptyList    -> Loaded("list", <<>>)
      [] raw = ObjectAnswer -> Loaded("dict", <<Entry(FALSE, {})>>)
      [] raw = PlainAnswer  -> Loaded("list", <<Entry(FALSE, {})>>)
      [] raw = EchAnswer    -> Loaded("list", <<Entry(TRUE, {"ech"})>>)
      [] raw = AlpnEchTwice -> Loaded("list", <<Entry(TRUE, {"alpn", "ech"}),
                                                Entry(TRUE, {"alpn"})>>)
      [] raw = PortAnswer   -> Loaded("list", <<Entry(TRUE, {"port"})>>)

-----------------------------------------------------------------------------
(* generate_filtered_table.py                                              *)

Domains == <<"d1", "d2">>

Row(dom, rk, qt, dur, rc, ans) ==
    [domain |-> dom, rank |-> rk, query_type |-> qt, duration_ms |-> dur,
     rcode |-> rc, answers |-> ans]

MinDiffMs == 50

\* parse_answers: the decoded list, [] for falsy values and decode errors;
\* only json.JSONDecodeError is caught
parse_answers(answers_str) ==
    LET r == json_loads(answers_str)
    IN  IF r.exc = "JSONDecodeError" THEN Loaded("list", <<>>)
        ELSE r

has_valid_answer(row) ==
    IF row.query_type = "HTTPS"
    THEN Len(row.parsed_answers) > 0 /\ row.rcode = "NOERROR"
    ELSE IF row.query_type = "A"
    THEN Len(row.parsed_answers) > 0 /\ row.rcode = "NOERROR"
    ELSE FALSE

\* drop_duplicates(subset='domain') in its place: one rank per domain
RECURSIVE drop_duplicates_by_domain(_, _)
drop_duplicates_by_domain(s, seen) ==
    IF s = <<>> THEN <<>>
    ELSE IF Head(s).domain \in seen THEN drop_duplicates_by_domain(Tail(s), seen)
    ELSE <<[domain |-> Head(s).domain, rank |-> Head(s).rank]>>
         \o drop_duplicates_by_domain(Tail(s), seen \cup {Head(s).domain})

\* df[['domain', 'rank']].drop_duplicates(): first occurrences, in order
RECURSIVE drop_duplicates(_, _)
drop_duplicates(s, seen) ==
    IF s = <<>> THEN <<>>
    ELSE LET p == [domain |-> Head(s).domain, rank |-> Head(s).rank]
         IN  IF p \in seen THEN drop_duplicates(Tail(s), seen)
             ELSE <<p>> \o drop_duplicates(Tail(s), seen \cup {p})

\* ascending insertion sort of a sequence of integers
RECURSIVE Insert(_, _)
Insert(x, s) ==
    IF s = <<>> THEN <<x>>
    ELSE IF x <= Head(s) THEN <<x>> \o s
    ELSE <<Head(s)>> \o Insert(x, Tail(s))

RECURSIVE SortAsc(_)
SortAsc(s) == IF s = <<>> THEN <<>> ELSE Insert(Head(s), SortAsc(Tail(s)))

\* Series.median(): the middle value, or the mean of the two middle values
Median(s) ==
    LET o == SortAsc(s)
        n == Len(o)
    IN  IF n % 2 = 1 THEN o[(n + 1) \div 2]
        ELSE (o[n \div 2] + o[n \div 2 + 1]) \div 2

\* the duration_ms column of one (domain, query_type) group
GroupSamples(fdf, dom, qt) ==
    LET g == SelectSeq(fdf, LAMBDA r : r.domain = dom /\ r.query_type = qt)
    IN  [i \in 1..Len(g) |-> g[i].duration_ms]

\* groupby(['domain', 'query_type'])['duration_ms'] with median, min, max
GroupStats(fdf) ==
    [key \in {<<r.domain, r.query_type>> : r \in Range(fdf)} |->
        LET s == SortAsc(GroupSamples(fdf, key[1], key[2]))
        IN  [median |-> Median(s), min |-> s[1], max |-> s[Len(s)]]]

\* a cell of an unstacked frame: NaN where the domain has no such group
Cell(stats, dom, qt, field) ==
    IF <<dom, qt>> \in DOMAIN stats THEN Num(stats[<<dom, qt>>][field]) ELSE NaN

\* the merged frame, one row per domain that has a group, in index order
MergedRows(stats) ==
    LET present == SelectSeq(Domains,
                     LAMBDA dom : \E key \in DOMAIN stats : key[1] = dom)
    IN  [i \in 1..Len(present) |->
            [domain |-> present[i],
             median_A_duration_ms     |-> Cell(stats, present[i], "A", "median"),
             median_HTTPS_duration_ms |-> Cell(stats, present[i], "HTTPS", "median"),
             min_HTTPS_duration_ms    |-> Cell(stats, present[i], "HTTPS", "min"),
             max_HTTPS_duration_ms    |-> Cell(stats, present[i], "HTTPS", "max")]]

\* set_index('domain').join(domain_ranks): a left join, one output row per
\* matching (domain, rank) pair
JoinRanks(rows, ranks) ==
    Flatten([i \in 1..Len(rows) |->
        LET m == SelectSeq(ranks, LAMBDA p : p.domain = rows[i].domain)
        IN  [j \in 1..Len(m) |->
                [domain |-> rows[i].domain, rank |-> m[j].rank,
                 median_A_duration_ms     |-> rows[i].median_A_duration_ms,
                 median_HTTPS_duration_ms |-> rows[i].median_HTTPS_duration_ms,
                 min_HTTPS_duration_ms    |-> rows[i].min_HTTPS_duration_ms,
                 max_HTTPS_duration_ms    |-> rows[i].max_HTTPS_duration_ms]]])

\* the duration_diff and ratio columns
WithDiffRatio(rows) ==
    [i \in 1..Len(rows) |->
        [domain |-> rows[i].domain, rank |-> rows[i].rank,
         median_A_duration_ms     |-> rows[i].median_A_duration_ms,
         median_HTTPS_duration_ms |-> rows[i].median_HTTPS_duration_ms,
         min_HTTPS_duration_ms    |-> rows[i].min_HTTPS_duration_ms,
         max_HTTPS_duration_ms    |-> rows[i].max_HTTPS_duration_ms,
         duration_diff |-> FSub(rows[i].median_HTTPS_duration_ms,
                                rows[i].median_A_duration_ms),
         ratio         |-> FDiv(rows[i].median_HTTPS_duration_ms,
                                rows[i].median_A_duration_ms)]]

\* ~(duration_diff <= 50) in its place: a NaN difference passes
KeepRowUnlessSmall(row) ==
    ~(row.duration_diff.k = "num" /\ row.duration_diff.n <= MinDiffMs)

\* merged_durations[merged_durations['duration_diff'] > 50]
KeepRow(row) == FGt(row.duration_diff, MinDiffMs)

\* the orders sort_values(by='min_HTTPS_duration_ms', ascending=False) may
\* leave the rows in: the default kind is quicksort, which is not stable, so
\* rows with equal keys may come out in any order
SortKey(row) == row.min_HTTPS_duration_ms.n

\* ascending=True in its place
InOrderAscending(a, b) == SortKey(a) <= SortKey(b)

InOrder(a, b) == SortKey(a) >= SortKey(b)

SortOutcomes(rows) ==
    {p \in Perms(rows) : \A i \in 1..Len(p) - 1 : InOrder(p[i], p[i + 1])}

\* filtered_df.apply(has_valid_answer, axis=1) assigned to a column: on a
\* frame with no rows apply returns a frame, which some pandas versions
\* refuse to assign to one column
ApplyOutcomes(f) ==
    IF f = <<>> THEN {"prepared", "ValueError"} ELSE {"prepared"}

\* lines 9-13: read the CSV file, or report that it is missing and exit
ReadCsv ==
    /\ pc = "start"
    /\ IF csv.exists
       THEN /\ df' = csv.rows
            /\ pc' = "loaded"
       ELSE /\ df' = <<>>
            /\ pc' = "exit"
    /\ UNCHANGED <<csv, filtered_df, domain_ranks, grouped_durations,
                   merged_durations, filtered_domains, markdown_table>>
    /\ UNCHANGED uvars

\* lines 15-42: the A/HTTPS rows, the rank of each domain, the parsed
\* answers and the has_answer column
Prepare ==
    /\ pc = "loaded"
    /\ LET f == SelectSeq(df, LAMBDA r : r.query_type \in {"A", "HTTPS"})
       IN  /\ domain_ranks' = drop_duplicates(df, {})
           /\ IF \E i \in 1..Len(f) : parse_answers(f[i].answers).exc = "TypeError"
              THEN /\ pc' = "TypeError"
                   /\ filtered_df' = <<>>
              ELSE /\ pc' \in ApplyOutcomes(f)
                   /\ filtered_df' =
                        [i \in 1..Len(f) |->
                           LET parsed == parse_answers(f[i].answers).val
                               row == [domain |-> f[i].domain,
                                       rank |-> f[i].rank,
                                       query_type |-> f[i].query_type,
                                       duration_ms |-> f[i].duration_ms,
                                       rcode |-> f[i].rcode,
                                       answers |-> f[i].answers,
                                       parsed_answers |-> parsed]
                           IN  [domain |-> row.domain, rank |-> row.rank,
                                query_type |-> row.query_type,
                                duration_ms |-> row.duration_ms,
                                rcode |-> row.rcode, answers |-> row.answers,
                                parsed_answers |-> parsed,
                                has_answer |-> has_valid_answer(row)]]
    /\ UNCHANGED <<csv, df, grouped_durations, merged_durations,
                   filtered_domains, markdown_table>>
    /\ UNCHANGED uvars

\* lines 44-63: group statistics, the merged frame with ranks, difference
\* and ratio; selecting a query type no row has is a KeyError
Aggregate ==
    /\ pc = "prepared"
    /\ LET stats == GroupStats(filtered_df)
       IN  /\ grouped_durations' = stats
           /\ IF \A qt \in {"A", "HTTPS"} : \E key \in DOMAIN stats : key[2] = qt
              THEN /\ merged_durations' =
                        WithDiffRatio(JoinRanks(MergedRows(stats), domain_ranks))
                   /\ pc' = "merged"
              ELSE /\ merged_durations' = <<>>
                   /\ pc' = "KeyError"
    /\ UNCHANGED <<csv, df, filtered_df, domain_ranks, filtered_domains,
                   markdown_table>>
    /\ UNCHANGED uvars

\* lines 65-69: keep the rows over the threshold and sort them
FilterSort ==
    /\ pc = "merged"
    /\ filtered_domains' \in SortOutcomes(SelectSeq(merged_durations, KeepRow))
    /\ pc' = "sorted"
    /\ UNCHANGED <<csv, df, filtered_df, domain_ranks, grouped_durations,
                   merged_durations, markdown_table>>
    /\ UNCHANGED uvars

\* lines 71-78: print one table line per row
PrintTable ==
    /\ pc = "sorted"
    /\ markdown_table' = filtered_domains
    /\ pc' = "done"
    /\ UNCHANGED <<csv, df, filtered_df, domain_ranks, grouped_durations,
                   merged_durations, filtered_domains>>
    /\ UNCHANGED uvars

NextTable == ReadCsv \/ Prepare \/ Aggregate \/ FilterSort \/ PrintTable

\* unique_domain_analysis.py is not run
UsageIdle ==
    /\ files = <<>>
    /\ upc = "idle"
    /\ fi = 0
    /\ dfs = <<>>
    /\ warnings = {}
    /\ udf = <<>>
    /\ param_domains = <<>>
    /\ param_counts = <<>>
    /\ param_df = <<>>

\* the input files of a run: a missing file, or rows drawn from U
InitTable(U, n) ==
    /\ csv \in {[exists |-> FALSE, rows |-> <<>>]}
                 \cup {[exists |-> TRUE, rows |-> s] : s \in SeqsUpTo(U, n)}
    /\ pc = "start"
    /\ df = <<>>
    /\ filtered_df = <<>>
    /\ domain_ranks = <<>>
    /\ grouped_durations = <<>>
    /\ merged_durations = <<>>
    /\ filtered_domains = <<>>
    /\ markdown_table = <<>>
    /\ UsageIdle

\* the rank the source list gives a domain
RankOf(dom) == IF dom = "d1" THEN 1 ELSE 2

\* rows that vary in query type, duration and success
TableRows ==
    {Row(dom, RankOf(dom), qt, dur, "NOERROR", ans) :
        dom \in Range(Domains), qt \in {"A", "HTTPS"},
        dur \in {0, 100}, ans \in {PlainAnswer, EmptyList}}
    \cup {Row(dom, RankOf(dom), "AAAA", 100, "NOERROR", PlainAnswer) :
             dom \in Range(Domains)}

\* rows that vary in the answers cell and the rcode
AnswerRows ==
    {Row("d1", 1, qt, 100, rc, ans) :
        qt \in {"A", "HTTPS"}, rc \in {"NOERROR", "SERVFAIL"},
        ans \in {PlainAnswer, EmptyList, NotJson, MissingCell, ObjectAnswer}}

\* rows that vary in the rank recorded for a domain
RankRows ==
    {Row(dom, rk, qt, IF qt = "HTTPS" THEN 200 ELSE 100, "NOERROR", PlainAnswer) :
        dom \in Range(Domains), rk \in {1, 2}, qt \in {"A", "HTTPS", "AAAA"}}

\* rows that bring several domains over the threshold
SortRows ==
    {Row(dom, RankOf(dom), "A", dur, "NOERROR", PlainAnswer) :
        dom \in Range(Domains), dur \in {0, 100}}
    \cup {Row(dom, RankOf(dom), "HTTPS", dur, "NOERROR", PlainAnswer) :
             dom \in Range(Domains), dur \in {100, 200}}

SpecTable == InitTable(TableRows, MaxRows) /\ [][NextTable]_vars

SpecAnswers == InitTable(AnswerRows, MaxAnswerRows) /\ [][NextTable]_vars

SpecRank == InitTable(RankRows, MaxRankRows) /\ [][NextTable]_vars

SpecSort == InitTable(SortRows, MaxSortRows) /\ [][NextTable]_vars

-----------------------------------------------------------------------------
(* unique_domain_analysis.py                                               *)

\* csv_files: results-top1000-v1.csv, -v2.csv, -v3.csv
NumFiles == 3

\* the keys of param_domains
Recognized == {"alpn", "ipv4hint", "ipv6hint", "ech"}

TotalLabel == "Total HTTPS RR Support"

\* a file that holds rows, a path with no file, a file that cannot be opened
OkFile(rows) == [status |-> "ok", rows |-> rows]
MissingFile  == [status |-> "missing", rows |-> <<>>]
DeniedFile   == [status |-> "denied", rows |-> <<>>]

\* pd.concat(dfs, ignore_index=True)
Concat(frames) == Flatten(frames)

\* https_df['answers'].apply(lambda x: x != '[]')
has_answer(row) == row.answers # EmptyList

\* https_df[https_df['has_answer']]
AnsweredHttps(frame) ==
    SelectSeq(frame, LAMBDA r : r.query_type = "HTTPS" /\ has_answer(r))

\* https_df[https_df['has_answer']]['domain'].nunique()
TotalUnique(frame) ==
    Cardinality({r.domain : r \in Range(AnsweredHttps(frame))})

\* param_domains[param] = {row['domain']} in its place
AddDomainReplace(domains, dom) == {dom}

\* param_domains[param] ^= {row['domain']} in its place
AddDomainToggle(domains, dom) ==
    IF dom \in domains THEN domains \ {dom} ELSE domains \cup {dom}

\* param_domains[param].add(row['domain'])
AddDomain(domains, dom) == domains \cup {dom}

\* the parameters one answers list names: every key of every 'params' map
ParamsOf(answers) ==
    UNION {answers[i].params : i \in {j \in 1..Len(answers) : answers[j].hasParams}}

\* one iteration of the loop over the rows: a JSONDecodeError skips the row
VisitRow(pd, row) ==
    LET r == json_loads(row.answers)
    IN  IF r.exc = "JSONDecodeError" THEN pd
        ELSE [p \in Recognized |->
                 IF p \in ParamsOf(r.val) THEN AddDomain(pd[p], row.domain)
                 ELSE pd[p]]

RECURSIVE VisitRows(_, _)
VisitRows(pd, rows) ==
    IF rows = <<>> THEN pd
    ELSE VisitRows(VisitRow(pd, Head(rows)), Tail(rows))

\* lines 30-58 on one concatenated frame: the exception that ends the run, or
\* the parameter sets and the counts
Analysis(frame) ==
    LET rows == AnsweredHttps(frame)
        pd   == VisitRows([p \in Recognized |-> {}], rows)
    IN  IF \E i \in 1..Len(rows) : json_loads(rows[i].answers).exc = "TypeError"
        THEN [exc |-> "TypeError", param_domains |-> <<>>, param_counts |-> <<>>]
        ELSE [exc |-> "none",
              param_domains |-> pd,
              param_counts |->
                 [l \in Recognized \cup {TotalLabel} |->
                     IF l = TotalLabel THEN TotalUnique(frame)
                     ELSE Cardinality(pd[l])]]

\* sort_values(by='Unique Domains', ascending=False): the counts in
\* descending order, each with the labels that have it (the order of rows
\* with equal counts is left to the sort)
RECURSIVE CountGroups(_, _)
CountGroups(counts, left) ==
    IF left = {} THEN <<>>
    ELSE LET top == CHOOSE l \in left : \A m \in left : counts[l] >= counts[m]
             grp == {l \in left : counts[l] = counts[top]}
         IN  <<[count |-> counts[top], labels |-> grp]>>
             \o CountGroups(counts, left \ grp)

\* len(dfs) < len(csv_files) in its place: any missing file ends the run
NoDataUnlessAll(frames) == Len(frames) < NumFiles

\* if not dfs
NoData(frames) == frames = <<>>

\* lines 20-24: one iteration of the load loop; only FileNotFoundError is
\* caught
LoadFile ==
    /\ upc = "load"
    /\ fi <= NumFiles
    /\ IF files[fi].status = "ok"
       THEN /\ dfs' = Append(dfs, files[fi].rows)
            /\ UNCHANGED warnings
            /\ fi' = fi + 1
            /\ upc' = "load"
       ELSE IF files[fi].status = "missing"
       THEN /\ warnings' = warnings \cup {fi}
            /\ UNCHANGED dfs
            /\ fi' = fi + 1
            /\ upc' = "load"
       ELSE /\ upc' = "PermissionError"
            /\ UNCHANGED <<dfs, warnings, fi>>
    /\ UNCHANGED <<files, udf, param_domains, param_counts, param_df>>
    /\ UNCHANGED tvars

\* lines 25-28: exit when no file was read, else concatenate
ConcatFrames ==
    /\ upc = "load"
    /\ fi > NumFiles
    /\ IF NoData(dfs)
       THEN /\ upc' = "exit"
            /\ UNCHANGED udf
       ELSE /\ upc' = "loaded"
            /\ udf' = Concat(dfs)
    /\ UNCHANGED <<files, fi, dfs, warnings, param_domains, param_counts,
                   param_df>>
    /\ UNCHANGED tvars

\* lines 30-58: the HTTPS rows with an answer, the total and the parameter sets
Analyse ==
    /\ upc = "loaded"
    /\ LET a == Analysis(udf)
       IN  /\ param_domains' = a.param_domains
           /\ param_counts' = a.param_counts
           /\ upc' = IF a.exc = "none" THEN "analysed" ELSE a.exc
    /\ UNCHANGED <<files, fi, dfs, warnings, udf, param_df>>
    /\ UNCHANGED tvars

\* lines 60-78: the sorted frame, charted and printed
Report ==
    /\ upc = "analysed"
    /\ param_df' = CountGroups(param_counts, DOMAIN param_counts)
    /\ upc' = "done"
    /\ UNCHANGED <<files, fi, dfs, warnings, udf, param_domains, param_counts>>
    /\ UNCHANGED tvars

NextUsage == LoadFile \/ ConcatFrames \/ Analyse \/ Report

\* generate_filtered_table.py is not run
TableIdle ==
    /\ csv = [exists |-> FALSE, rows |-> <<>>]
    /\ pc = "idle"
    /\ df = <<>>
    /\ filtered_df = <<>>
    /\ domain_ranks = <<>>
    /\ grouped_durations = <<>>
    /\ merged_durations = <<>>
    /\ filtered_domains = <<>>
    /\ markdown_table = <<>>

\* the rows s dealt to the three files: 1..a, a+1..b and b+1..Len(s)
Deal(s, a, b) ==
    <<SubSeq(s, 1, a), SubSeq(s, a + 1, b), SubSeq(s, b + 1, Len(s))>>

\* the input files of a run: each is missing, cannot be opened, or holds rows
\* drawn from U, at most n rows in all
InitUsage(U, n) ==
    /\ \E s \in SeqsUpTo(U, n) :
       \E a \in 0..Len(s) :
       \E b \in a..Len(s) :
       \E st \in [1..NumFiles -> {"ok", "missing", "denied"}] :
          /\ \A i \in 1..NumFiles : st[i] # "ok" => Deal(s, a, b)[i] = <<>>
          /\ files = [i \in 1..NumFiles |->
                         IF st[i] = "ok" THEN OkFile(Deal(s, a, b)[i])
                         ELSE IF st[i] = "missing" THEN MissingFile
                         ELSE DeniedFile]
    /\ upc = "load"
    /\ fi = 1
    /\ dfs = <<>>
    /\ warnings = {}
    /\ udf = <<>>
    /\ param_domains = <<>>
    /\ param_counts = <<>>
    /\ param_df = <<>>
    /\ TableIdle

URow(dom, qt, rc, ans) == Row(dom, 1, qt, 100, rc, ans)

UsageRows ==
    {URow("x", "HTTPS", "NOERROR", ans) :
        ans \in {EchAnswer, EmptyList, NotJson, MissingCell}}
    \cup {URow("y", "HTTPS", "NOERROR", AlpnEchTwice),
          URow("y", "HTTPS", "NOERROR", PortAnswer),
          URow("y", "HTTPS", "SERVFAIL", EchAnswer),
          URow("x", "A", "NOERROR", EchAnswer)}

SpecUsage == InitUsage(UsageRows, MaxRecs) /\ [][NextUsage]_vars

-----------------------------------------------------------------------------
(* Properties of generate_filtered_table.py                                *)

\* the group statistics and the merged frame have been computed
Merged == pc \in {"merged", "sorted", "done"}

\* the durations of the records of a pair that has_valid_answer accepts
SuccessfulSamples(dom, qt) ==
    LET g == SelectSeq(filtered_df,
                LAMBDA r : r.domain = dom /\ r.query_type = qt /\ r.has_answer)
    IN  [i \in 1..Len(g) |-> g[i].duration_ms]

\* the input has a record of this domain and query type
HasRecords(dom, qt) ==
    \E i \in 1..Len(df) : df[i].domain = dom /\ df[i].query_type = qt

\* the pair has group statistics
HasStat(dom, qt) == <<dom, qt>> \in DOMAIN grouped_durations

\* C1: the median, min and max of every (domain, query type) pair, query
\* type A or HTTPS, are those of the pair's successful records (non-empty
\* parsed answers and rcode NOERROR), and a pair with no successful record
\* has no statistic.
C1_StatsOverSuccessfulOnly ==
    Merged =>
        \A dom \in Range(Domains), qt \in {"A", "HTTPS"} :
            LET s == SortAsc(SuccessfulSamples(dom, qt))
            IN  IF s = <<>> THEN ~HasStat(dom, qt)
                ELSE /\ HasStat(dom, qt)
                     /\ grouped_durations[<<dom, qt>>] =
                          [median |-> Median(s), min |-> s[1], max |-> s[Len(s)]]

\* C2: every row of the output table is of a domain that has statistics for
\* query type A and for query type HTTPS; a domain with records of only one
\* of the two types is in no row.
C2_InnerJoin ==
    \A t \in {filtered_domains, markdown_table} :
        \A i \in 1..Len(t) :
            /\ HasStat(t[i].domain, "A") /\ HasStat(t[i].domain, "HTTPS")
            /\ HasRecords(t[i].domain, "A") /\ HasRecords(t[i].domain, "HTTPS")

\* a table was printed with a row, while another domain, with records of one
\* type only, is in the merged frame and in no printed row
C2_Witness ==
    /\ pc = "done"
    /\ markdown_table # <<>>
    /\ \E dom \in Range(Domains) :
          /\ HasRecords(dom, "A") # HasRecords(dom, "HTTPS")
          /\ \E i \in 1..Len(merged_durations) : merged_durations[i].domain = dom
          /\ \A i \in 1..Len(markdown_table) : markdown_table[i].domain # dom

\* C5: parsing the answers never raises, and every answers cell that is
\* malformed, empty, missing or not a list gives zero parsed answers and
\* has_answer False.
C5_ParsingNeverRaises ==
    /\ pc # "TypeError"
    /\ \A i \in 1..Len(filtered_df) :
          LET r == json_loads(filtered_df[i].answers)
          IN  (r.exc # "none" \/ r.type # "list" \/ r.val = <<>>)
                  => /\ filtered_df[i].parsed_answers = <<>>
                     /\ ~filtered_df[i].has_answer

\* C7: no printed row has a median A duration of 0, and none carries an
\* infinite or NaN ratio.
C7_NoUndefinedRatio ==
    \A i \in 1..Len(markdown_table) :
        /\ markdown_table[i].median_A_duration_ms # Num(0)
        /\ markdown_table[i].ratio.k = "num"

\* the rows over the threshold, in the order of the merged frame
Survivors == SelectSeq(merged_durations, KeepRow)

\* the place of a row in the sort's input
PlaceIn(rows, row) == CHOOSE i \in 1..Len(rows) : rows[i] = row

RanksInTable(dom) ==
    LET g == SelectSeq(merged_durations, LAMBDA r : r.domain = dom)
    IN  [i \in 1..Len(g) |-> g[i].rank]

\* the index of the first record of a domain, and of the first with a rank
FirstRecord(dom) ==
    CHOOSE i \in 1..Len(df) :
        /\ df[i].domain = dom
        /\ \A j \in 1..(i - 1) : df[j].domain # dom

FirstWithRank(dom, rk) ==
    CHOOSE i \in 1..Len(df) :
        /\ df[i].domain = dom /\ df[i].rank = rk
        /\ \A j \in 1..(i - 1) : ~(df[j].domain = dom /\ df[j].rank = rk)

-----------------------------------------------------------------------------
(* Properties of unique_domain_analysis.py                                 *)

\* the files that can be read, and their rows in file order
Readable == {i \in 1..NumFiles : files[i].status = "ok"}

InputRows ==
    Concat([i \in 1..NumFiles |->
               IF i \in Readable THEN files[i].rows ELSE <<>>])

\* the row is an HTTPS record with an answer entry that carries parameter p
Exhibits(row, p) ==
    /\ row.query_type = "HTTPS"
    /\ LET r == json_loads(row.answers)
       IN  /\ r.exc = "none"
           /\ \E k \in 1..Len(r.val) : r.val[k].hasParams /\ p \in r.val[k].params

ExhibitingDomains(p) ==
    {InputRows[i].domain : i \in {j \in 1..Len(InputRows) : Exhibits(InputRows[j], p)}}

\* C3: the count reported for a recognized parameter is the number of
\* distinct domains with that parameter in some HTTPS answer entry of the
\* combined input, however many datasets, records or entries show it.
C3_UniqueDomainCount ==
    upc = "done" =>
        \A p \in Recognized :
            /\ param_counts[p] = Cardinality(ExhibitingDomains(p))
            /\ \E g \in 1..Len(param_df) :
                  /\ p \in param_df[g].labels
                  /\ param_df[g].count = Cardinality(ExhibitingDomains(p))

\* a domain shows ech in two datasets, a second domain shows it too, and the
\* count reported for ech is 2
C3_Witness ==
    /\ upc = "done"
    /\ param_counts["ech"] = 2
    /\ \E i, j \in Readable :
          /\ i # j
          /\ \E dom \in ExhibitingDomains("ech") :
                /\ \E k \in 1..Len(files[i].rows) :
                      files[i].rows[k].domain = dom /\ Exhibits(files[i].rows[k], "ech")
                /\ \E k \in 1..Len(files[j].rows) :
                      files[j].rows[k].domain = dom /\ Exhibits(files[j].rows[k], "ech")

\* the success predicate of the aggregation, on a row of the input
Succeeds(row) ==
    LET a == parse_answers(row.answers)
    IN  /\ a.exc = "none"
        /\ has_valid_answer([query_type |-> row.query_type, rcode |-> row.rcode,
                             parsed_answers |-> a.val])

SuccessfulHttpsDomains ==
    {InputRows[i].domain :
        i \in {j \in 1..Len(InputRows) :
                  InputRows[j].query_type = "HTTPS" /\ Succeeds(InputRows[j])}}

\* C4: a domain is in a parameter's set, and in the total, only on the
\* strength of a successful HTTPS record (non-empty parsed answers and rcode
\* NOERROR).
C4_SuccessfulRecordsOnly ==
    upc \in {"analysed", "done"} =>
        /\ \A p \in Recognized : param_domains[p] \subseteq SuccessfulHttpsDomains
        /\ param_counts[TotalLabel] = Cardinality(SuccessfulHttpsDomains)

\* the load has ended, in one way or another
LoadEnded == upc # "load"

\* the load gave the rows of all readable files, in file order
LoadSucceeded ==
    /\ upc \in {"loaded", "analysed", "done", "TypeError"}
    /\ udf = InputRows

\* the run ended on the no-data error with nothing computed or printed
NoDataAbort ==
    /\ upc = "exit"
    /\ udf = <<>> /\ param_domains = <<>> /\ param_counts = <<>> /\ param_df = <<>>

C8_CountsMonotone ==
    upc \in {"analysed", "done"} =>
        \A k \in 1..(Len(dfs) - 1) :
            LET before == Analysis(Concat(SubSeq(dfs, 1, k)))
            IN  before.exc = "none" =>
                    \A l \in Recognized \cup {TotalLabel} :
                        param_counts[l] >= before.param_counts[l]

\* a dataset was appended to an input on which ech had one domain and it
\* brought a count up, all counts of the shorter input being kept
C8_Witness ==
    /\ upc = "done"
    /\ Len(dfs) >= 2
    /\ LET before == Analysis(Concat(SubSeq(dfs, 1, Len(dfs) - 1)))
       IN  /\ before.exc = "none"
           /\ before.param_counts["ech"] = 1
           /\ param_counts["ech"] = 2
           /\ param_counts[TotalLabel] > before.param_counts[TotalLabel]

=============================================================================
